---- MODULE Spec2Model ----
(***************************************************************************)
(* Model of the prediction engine of indian-stock-predictor:               *)
(*   page.tsx     fastPredictStock, enhancedPredictStock,                  *)
(*                calculateVolatility, handlePredict                       *)
(*   ml-utils.ts  processStockData, trainLinearRegressionModel,            *)
(*                predictNextDay, getPredictionsForData,                   *)
(*                createAdvancedFeatures, calculateR2Score, calculateMSE   *)
(*                                                                         *)
(* Numbers.  A JavaScript number is modelled as an integer or NaN.  Prices *)
(* are whole rupees.  Quantities the code computes as fractions are kept   *)
(* as exact numerator/denominator pairs where the code only adds,          *)
(* multiplies and divides, and as fixed-point integers (scale named at     *)
(* each use) where it takes a square root.  toFixed(k) rounds to k         *)
(* decimals, so result fields are integers in units of 10^-k.  The mean of  *)
(* calculateR2Score is rounded as a floating-point number is, at a         *)
(* significand of MantissaBits bits.                                       *)
(***************************************************************************)
EXTENDS Integers, Sequences, FiniteSets, TLC

VARIABLES
    stockSymbolBlank, \* page.tsx:151  !stockSymbol.trim()
    loading,          \* page.tsx:152
    error,            \* page.tsx:153
    stockData,        \* page.tsx:154  sequence of [date, price]
    prediction,       \* page.tsx:155  << >> (null) or <<PredictionResult>>
    hpc,              \* position of the latest handlePredict call
    requested,        \* a non-blank request has been started
    epc,              \* position of the enhancedPredictStock call
    epsState,         \* its promise: "none", "pending", "resolved", "rejected"
    epsValue,         \* << >> or <<PredictionResult>> the promise resolved with
    fastResult,       \* page.tsx:70   << >> or <<PredictionResult>>
    processedData,    \* page.tsx:74   << >> or <<[dates, prices, xs]>>
    innerRace,        \* page.tsx:86   "none", "undecided", "model", "timer"
    outerRace,        \* page.tsx:235  "none", "undecided", "prediction", "timer"
    training,         \* modelPromise: "none", "phase1", "phase2", "resolved", "rejected"
    xsTensor,         \* ml-utils.ts:125  "none", "live", "disposed"
    ysTensor,         \* ml-utils.ts:126
    tfModel,          \* ml-utils.ts:87   "none", "live", "disposed"
    innerTimer,       \* page.tsx:83   [state, deadline]
    outerTimer,       \* page.tsx:232  [state, deadline]
    now,              \* the host's clock, in seconds
    epsError,         \* the message of the error the promise rejected with
    path,             \* which path produced epsValue: "none", "fallback", "enhanced"
    fallbackWhy,      \* why the inner catch ran: "none", "normalizer", "training",
                      \* "timeout", "inference"
    unrounded,        \* change and currentPrice before rounding, of fastResult and of
                      \* an enhanced epsValue
    lib,              \* a call of a function of ml-utils.ts on its own: [fn, args, out]
    repeats           \* the requests started after the first

vars == <<stockSymbolBlank, loading, error, stockData, prediction, hpc, requested,
          epc, epsState, epsValue, fastResult, processedData, innerRace, outerRace,
          training, xsTensor, ysTensor, tfModel, innerTimer, outerTimer, now, path,
          fallbackWhy, epsError, unrounded, lib, repeats>>

-----------------------------------------------------------------------------
(* Bounds of the model *)

\* longest input series
MaxLen == 21
\* the last TailLen prices of an input series vary, the ones before are BasePrice
TailLen == 3
\* prices are BasePrice - 1, BasePrice, BasePrice + 1 rupees, or NaN
BasePrice == 14
\* a network output is k / NetGrid of the price range, k in 0..NetGrid
NetGrid == 2
\* the fetch takes at most this long
MaxFetchDelay == 1

-----------------------------------------------------------------------------
(* Numbers *)

\* the JavaScript NaN; every other number of the model is greater
NaN == 0 - 1000000000

IsNaN(x) == x = NaN

Abs(x) == IF x < 0 THEN 0 - x ELSE x

\* Math.min / Math.max: NaN if either argument is NaN
MathMin(a, b) == IF IsNaN(a) \/ IsNaN(b) THEN NaN ELSE IF a < b THEN a ELSE b

MathMax(a, b) == IF IsNaN(a) \/ IsNaN(b) THEN NaN ELSE IF a > b THEN a ELSE b

\* a / b truncated toward zero, b > 0
TruncDiv(a, b) == IF a >= 0 THEN a \div b ELSE 0 - ((0 - a) \div b)

\* a / b rounded to the nearest integer, halves away from zero, b > 0: what
\* Number.prototype.toFixed does to the digits it drops
RoundDiv(a, b) ==
    LET m == Abs(a)
        r == (m \div b) + (IF 2 * (m % b) >= b THEN 1 ELSE 0)
    IN  IF a >= 0 THEN r ELSE 0 - r

\* parseFloat(x.toFixed(k)) of the fraction num / den, in units of 10^-k
\* (scale = 10^k); NaN.toFixed(k) is "NaN" and parses back to NaN
ToFixed(num, den, scale) ==
    IF IsNaN(num) THEN NaN
    ELSE LET m == Abs(num)
             r == (m \div den) * scale + RoundDiv((m % den) * scale, den)
         IN  IF num >= 0 THEN r ELSE 0 - r

RECURSIVE IsqrtBetween(_, _, _)

\* the k with k * k <= v < (k + 1) * (k + 1), given lo * lo <= v < hi * hi
IsqrtBetween(v, lo, hi) ==
    IF hi - lo <= 1 THEN lo
    ELSE LET mid == (lo + hi) \div 2
         IN  IF mid * mid <= v THEN IsqrtBetween(v, mid, hi) ELSE IsqrtBetween(v, lo, mid)

\* Math.sqrt, rounded down to the fixed-point grid, for v < 2^30
Isqrt(v) == IsqrtBetween(v, 0, 2^15)

-----------------------------------------------------------------------------
(* Arrays *)

RECURSIVE SumSeq(_)
SumSeq(s) == IF s = << >> THEN 0 ELSE Head(s) + SumSeq(Tail(s))

\* Array.prototype.some(isNaN)
HasNaN(s) == \E i \in 1..Len(s) : IsNaN(s[i])

\* Array.prototype.slice(-k): the last k elements, all of them if fewer
SliceLast(s, k) == IF Len(s) <= k THEN s ELSE SubSeq(s, Len(s) - k + 1, Len(s))

SeqMin(s) == CHOOSE m \in {s[i] : i \in 1..Len(s)} : \A i \in 1..Len(s) : m <= s[i]

SeqMax(s) == CHOOSE m \in {s[i] : i \in 1..Len(s)} : \A i \in 1..Len(s) : m >= s[i]

None == << >>

Some(x) == <<x>>

-----------------------------------------------------------------------------
(* Outcomes of a call *)

Throw(m) == [threw |-> TRUE, message |-> m, value |-> None]

Return(v) == [threw |-> FALSE, message |-> "", value |-> Some(v)]

-----------------------------------------------------------------------------
(* page.tsx: fastPredictStock *)

\* page.tsx:16
MinPoints == 10
\* page.tsx:24
ShortWindow == 5
\* page.tsx:25
LongWindow == 20
\* page.tsx:28
RegressionWindow == 10
\* fixed-point scale of confidence terms: 1 percent is ConfScale
ConfScale == 10 * 10
\* fixed-point scale of returns, volatility and R2: 1 is FracScale, so that a
\* fraction f in 1/FracScale is also f * 100 in 1/ConfScale
FracScale == 100 * ConfScale

Prices(sd) == [i \in 1..Len(sd) |-> sd[i].price]

\* Indices as it would be counting from 1
IndicesFromOne(n) == [i \in 1..n |-> i]

\* Array.from({length: n}, (_, i) => i)
Indices(n) == [i \in 1..n |-> i - 1]

\* x.reduce((acc, xi, i) => acc + xi * ys[i], 0)
SumProd(x, ys) == SumSeq([i \in 1..Len(x) |-> x[i] * ys[i]])

\* prices.slice(1).map((price, i) => (price - prices[i]) / prices[i]), in 1/FracScale
Returns(prices) ==
    [i \in 1..(Len(prices) - 1) |->
        TruncDiv((prices[i + 1] - prices[i]) * FracScale, prices[i])]

\* StdevOfReturns as it would be if returns that do not vary gave NaN
StdevOfReturnsOrNaN(prices) ==
    IF HasNaN(prices) \/ \A i \in 1..(Len(prices) - 1) : prices[i + 1] = prices[i]
    THEN NaN
    ELSE LET returns  == Returns(prices)
             m        == Len(returns)
             avg      == TruncDiv(SumSeq(returns), m)
             variance == SumSeq([i \in 1..m |-> (returns[i] - avg) * (returns[i] - avg)]) \div m
         IN  Isqrt(variance)

\* the square root of the population variance of the returns, in 1/FracScale
\* (page.tsx:41-44 and, with the same body, calculateVolatility's 130-133)
StdevOfReturns(prices) ==
    IF HasNaN(prices) THEN NaN
    ELSE LET returns  == Returns(prices)
             m        == Len(returns)
             avg      == TruncDiv(SumSeq(returns), m)
             variance == SumSeq([i \in 1..m |-> (returns[i] - avg) * (returns[i] - avg)]) \div m
         IN  Isqrt(variance)

\* TrendOf as it would be with a threshold of 5 percent
TrendOfFivePercent(changeNum, den, currentPrice) ==
    IF IsNaN(changeNum) \/ IsNaN(currentPrice) THEN
        IF IsNaN(changeNum) THEN "down"
        ELSE IF changeNum > 0 THEN "up" ELSE "down"
    ELSE IF Abs(changeNum) * 100 < currentPrice * 5 * den THEN "stable"
    ELSE IF changeNum > 0 THEN "up" ELSE "down"

\* TrendOf as it would be without the stable band
TrendOfSignOnly(changeNum, den, currentPrice) ==
    IF IsNaN(changeNum) THEN "down"
    ELSE IF changeNum > 0 THEN "up" ELSE "down"

\* Math.abs(change) < currentPrice * 0.005 ? 'stable' : (change > 0 ? 'up' : 'down')
\* for change = changeNum / den, den > 0; a comparison with NaN is false
TrendOf(changeNum, den, currentPrice) ==
    IF IsNaN(changeNum) \/ IsNaN(currentPrice) THEN
        IF IsNaN(changeNum) THEN "down"
        ELSE IF changeNum > 0 THEN "up" ELSE "down"
    ELSE IF Abs(changeNum) * 1000 < currentPrice * 5 * den THEN "stable"
    ELSE IF changeNum > 0 THEN "up" ELSE "down"

\* Clamp as it would be without the floor
ClampNoFloor(lo, hi, x) == MathMin(hi, x)

\* Math.max(lo, Math.min(hi, x))
Clamp(lo, hi, x) == MathMax(lo, MathMin(hi, x))

\* page.tsx:49-54, in 1/ConfScale percent
FastConfidence(slopeNum, slopeDen, shortSum, longSum, currentPrice, volatility) ==
    IF IsNaN(slopeNum) \/ IsNaN(shortSum) \/ IsNaN(longSum) \/ IsNaN(volatility) THEN NaN
    ELSE LET trendStrength1000 == (Abs(slopeNum) * 1000 * ConfScale) \div slopeDen
             \* |shortSum / 5 - longSum / 20| / currentPrice * 100
             maConsistency100 ==
                 (Abs(shortSum * LongWindow - longSum * ShortWindow) * 100 * ConfScale)
                     \div (ShortWindow * LongWindow * currentPrice)
             baseConfidence    == MathMin(90 * ConfScale, trendStrength1000 + maConsistency100)
             volatilityPenalty == MathMin(30 * ConfScale, (volatility * 500 * ConfScale) \div FracScale)
         IN  Clamp(45 * ConfScale, 90 * ConfScale, baseConfidence - volatilityPenalty)

\* page.tsx:25: prices.slice(-20).reduce((a, b) => a + b, 0) / 20, as the
\* fraction num / den
LongMA(prices) ==
    [num |-> IF HasNaN(SliceLast(prices, LongWindow)) THEN NaN
             ELSE SumSeq(SliceLast(prices, LongWindow)),
     den |-> LongWindow]

\* The unrounded quantities of fastPredictStock: nextPrice and change are the
\* fractions nextNum / den and changeNum / den
FastRaw(sd) ==
    LET prices       == Prices(sd)
        currentPrice == prices[Len(prices)]
        shortSum     == IF HasNaN(SliceLast(prices, ShortWindow)) THEN NaN
                        ELSE SumSeq(SliceLast(prices, ShortWindow))
        longMA       == LongMA(prices)
        longSum      == longMA.num
        recentPrices == SliceLast(prices, RegressionWindow)
        n            == Len(recentPrices)
        x            == Indices(n)
        sumX         == SumSeq(x)
        sumY         == SumSeq(recentPrices)
        sumXY        == SumProd(x, recentPrices)
        sumXX        == SumProd(x, x)
        recentNaN    == HasNaN(recentPrices)
        \* slope = slopeNum / slopeDen
        slopeNum     == IF recentNaN THEN NaN ELSE n * sumXY - sumX * sumY
        slopeDen     == n * sumXX - sumX * sumX
        \* intercept = (sumY - slope * sumX) / n; nextPrice = slope * n + intercept
        den          == slopeDen * n
        nextNum      == IF recentNaN THEN NaN
                        ELSE slopeNum * n * n + (sumY * slopeDen - slopeNum * sumX)
        changeNum    == IF recentNaN \/ IsNaN(currentPrice) THEN NaN
                        ELSE nextNum - currentPrice * den
        volatility   == StdevOfReturns(prices)
    IN  [currentPrice |-> currentPrice, nextNum |-> nextNum, changeNum |-> changeNum,
         den |-> den, longMA |-> longMA,
         confidence |-> FastConfidence(slopeNum, slopeDen, shortSum, longSum,
                                       currentPrice, volatility)]

\* page.tsx:56-64: the record a prediction returns, rounded field by field
MakeResult(currentPrice, nextNum, changeNum, den, confidence) ==
    [currentPrice  |-> ToFixed(currentPrice, 1, 100),
     predictedPrice |-> ToFixed(nextNum, den, 100),
     confidence    |-> ToFixed(confidence, ConfScale, 10),
     trend         |-> TrendOf(changeNum, den, currentPrice),
     change        |-> ToFixed(changeNum, den, 100),
     changePercent |-> IF IsNaN(changeNum) THEN NaN
                       ELSE ToFixed(changeNum * 100, den * currentPrice, 100)]

\* fastPredictStock with the length check off by one
fastPredictStockOffByOne(sd) ==
    IF Len(sd) < MinPoints - 1 THEN Throw("Insufficient data for prediction")
    ELSE LET r == FastRaw(sd)
         IN  Return(MakeResult(r.currentPrice, r.nextNum, r.changeNum, r.den, r.confidence))

fastPredictStock(sd) ==
    IF Len(sd) < MinPoints THEN Throw("Insufficient data for prediction")
    ELSE LET r == FastRaw(sd)
         IN  Return(MakeResult(r.currentPrice, r.nextNum, r.changeNum, r.den, r.confidence))

-----------------------------------------------------------------------------
(* ml-utils.ts: processStockData *)

\* item.price.toString(): the digits of a number, or the text "NaN"
NumberToString(p) == IF IsNaN(p) THEN [text |-> "NaN", digits |-> 0]
                     ELSE [text |-> "digits", digits |-> p]

\* parseFloat
ParseFloat(s) == IF s.text = "digits" THEN s.digits ELSE NaN

\* page.tsx:75-78: the reduce that keys the closing prices by date; a later item
\* with the same date overwrites the earlier one
TimeSeries(sd) ==
    LET dates == {sd[i].date : i \in 1..Len(sd)}
        last(d) == CHOOSE i \in 1..Len(sd) :
                       /\ sd[i].date = d
                       /\ \A j \in 1..Len(sd) : sd[j].date = d => j <= i
    IN  [d \in dates |-> NumberToString(sd[last(d)].price)]

RECURSIVE SortDesc(_)
\* SortAsc as it would be sorting downwards
SortDesc(S) == IF S = {} THEN << >>
               ELSE LET m == CHOOSE x \in S : \A y \in S : x >= y
                    IN  <<m>> \o SortDesc(S \ {m})

RECURSIVE SortAsc(_)
\* Object.keys(timeSeries).sort(); the dates are days counted from some day, as
\* the order of the texts YYYY-MM-DD is the order of the days
SortAsc(S) == IF S = {} THEN << >>
              ELSE LET m == CHOOSE x \in S : \A y \in S : x <= y
                   IN  <<m>> \o SortAsc(S \ {m})

processStockData(timeSeries) ==
    LET dates  == SortAsc(DOMAIN timeSeries)
        prices == [i \in 1..Len(dates) |-> ParseFloat(timeSeries[dates[i]])]
    IN  IF HasNaN(prices) THEN Throw("Invalid price data")
        ELSE IF Len(prices) = 0 THEN Throw("No valid price data found")
        ELSE Return([dates |-> dates, prices |-> prices, xs |-> Indices(Len(dates))])

-----------------------------------------------------------------------------
(* ml-utils.ts: the trained model and inference *)

\* prices and predictions of the enhanced path are in 1/PriceScale rupee, so that
\* every network output k / NetGrid and both bounds 0.8 yMin, 1.2 yMax are integers
PriceScale == 10 * NetGrid

\* ml-utils.ts:51-54 and 168-170: what the model object carries after training
TrainedModel(xs, ys) ==
    [xMin |-> SeqMin(xs), xMax |-> SeqMax(xs), yMin |-> SeqMin(ys), yMax |-> SeqMax(ys),
     trainingPrices |-> ys]

\* ml-utils.ts:60, 76-79 and 85: with xMax = xMin or yMax = yMin every feature
\* vector and every training target holds 0/0, and the network returns NaN
Degenerate(model) == model.xMin = model.xMax \/ model.yMin = model.yMax

\* the sigmoid output nearest to a perfect fit of price y, in 1/NetGrid
FitOutput(model, y) ==
    RoundDiv((y - model.yMin) * NetGrid, model.yMax - model.yMin)

\* The network's outputs on the training indices, one per index, in 1/NetGrid of the
\* range or NaN.  Training starts from random weights, so the outputs are any of these.
NetProfiles == {"fit", "low", "mid", "high", "nan", "nanLast"}

NetOutputs(model, xs, profile) ==
    [i \in 1..Len(xs) |->
        IF Degenerate(model) THEN NaN
        ELSE CASE profile = "fit"     -> FitOutput(model, model.trainingPrices[i])
               [] profile = "low"     -> 0
               [] profile = "mid"     -> NetGrid \div 2
               [] profile = "high"    -> NetGrid
               [] profile = "nan"     -> NaN
               [] profile = "nanLast" -> IF i = Len(xs) THEN NaN
                                         ELSE FitOutput(model, model.trainingPrices[i])]

\* the outputs the network can give for one index
NextOutputs(model) == IF Degenerate(model) THEN {NaN} ELSE (0..NetGrid) \cup {NaN}

\* ml-utils.ts:197 and 279: val * (yMax - yMin) + yMin, in 1/PriceScale
Denormalize(model, out) ==
    IF IsNaN(out) THEN NaN
    ELSE (out * (model.yMax - model.yMin) * PriceScale) \div NetGrid + model.yMin * PriceScale

\* ml-utils.ts:202 and 291: Math.max(yMin * 0.8, Math.min(yMax * 1.2, val)), in 1/PriceScale
Bound(model, val) ==
    MathMax((model.yMin * 8 * PriceScale) \div 10,
            MathMin((model.yMax * 12 * PriceScale) \div 10, val))

\* predictNextDay as it would be with 0 for a NaN
predictNextDayZeroForNaN(model, netOut) ==
    LET result == Denormalize(model, netOut)
    IN  IF IsNaN(result) THEN 0 ELSE Bound(model, result)

\* ml-utils.ts:181-203, in 1/PriceScale; netOut is the network's output
predictNextDay(model, netOut) ==
    LET result == Denormalize(model, netOut)
    IN  IF IsNaN(result) THEN model.yMin * PriceScale ELSE Bound(model, result)

\* getPredictionsForData as it would be with the midpoint for every NaN
getPredictionsForDataMidpointOnly(model, xs, netOuts) ==
    [i \in 1..Len(xs) |->
        LET val == Denormalize(model, netOuts[i])
        IN  IF IsNaN(val) THEN ((model.yMin + model.yMax) * PriceScale) \div 2
            ELSE Bound(model, val)]

\* ml-utils.ts:262-297, in 1/PriceScale; netOuts are the network's outputs
getPredictionsForData(model, xs, netOuts) ==
    [i \in 1..Len(xs) |->
        LET val == Denormalize(model, netOuts[i])
        IN  IF IsNaN(val)
            THEN IF i <= Len(model.trainingPrices) /\ model.trainingPrices[i] # 0
                 THEN model.trainingPrices[i] * PriceScale
                 ELSE ((model.yMin + model.yMax) * PriceScale) \div 2
            ELSE Bound(model, val)]

-----------------------------------------------------------------------------
(* ml-utils.ts: createAdvancedFeatures, lines 59-81 *)

\* the JavaScript Infinity; every other number of the model is smaller
Infinity == 0 + 1000000000

\* num / den of two numbers, in 1/FracScale: 0 / 0 is NaN, x / 0 is infinite
Divide(num, den) ==
    IF den = 0 THEN (IF num = 0 THEN NaN ELSE IF num > 0 THEN Infinity ELSE 0 - Infinity)
    ELSE IF den > 0 THEN TruncDiv(num * FracScale, den)
    ELSE TruncDiv((0 - num) * FracScale, 0 - den)

\* Math.sin of a / b of a half turn, 0 <= a <= b, in 1/FracScale, by Bhaskara's
\* formula 16 x (pi - x) / (5 pi^2 - 4 x (pi - x)), which is within 0.002 of the sine
SinHalfTurn(a, b) == (16 * a * (b - a) * FracScale) \div (5 * b * b - 4 * a * (b - a))

\* Math.sin(2 * Math.PI * num / den), in 1/FracScale, for num >= 0 and den > 0
SinTurns(num, den) ==
    LET a == (2 * num) % (2 * den)
    IN  IF a <= den THEN SinHalfTurn(a, den) ELSE 0 - SinHalfTurn(a - den, den)

\* ml-utils.ts:63: ma3 of the price at index (counted from 0), as the fraction
\* num / den
MA3(prices, index) ==
    IF index >= 2
    THEN [num |-> prices[index + 1] + prices[index] + prices[index - 1], den |-> 3]
    ELSE [num |-> prices[index + 1], den |-> 1]

\* ml-utils.ts:64: ma5 of the price at index, as the fraction num / den;
\* Math.max(0, index - 4) is index - 4 and Math.min(5, index + 1) is 5 where
\* index >= 4
MA5(prices, index) ==
    IF index >= 4
    THEN [num |-> SumSeq(SubSeq(prices, index - 3, index + 1)), den |-> 5]
    ELSE [num |-> prices[index + 1], den |-> 1]

\* ml-utils.ts:59-81: the 9 features of index x, in 1/FracScale; model carries
\* xMin, xMax, yMin and yMax of the closure
createAdvancedFeatures(x, prices, index, model) ==
    LET xRange   == model.xMax - model.xMin
        yRange   == model.yMax - model.yMin
        xNum     == x - model.xMin
        xNorm    == Divide(xNum, xRange)
        finite   == xRange # 0
        ma3Num   == MA3(prices, index).num
        ma3Den   == MA3(prices, index).den
        window   == SubSeq(prices, index - 3, index + 1)
        ma5Num   == MA5(prices, index).num
        ma5Den   == MA5(prices, index).den
        momentum == IF index > 0 THEN prices[index + 1] - prices[index] ELSE 0
        \* 25 times the variance of the window: 5 * sum p^2 - (sum p)^2
        spread   == 5 * SumProd(window, window) - SumSeq(window) * SumSeq(window)
        volatility == IF index >= 5 THEN (Isqrt(spread * 10000) * (FracScale \div 100)) \div 5
                      ELSE 0
    IN  << xNorm,
           IF IsNaN(xNorm) THEN NaN ELSE IF ~finite THEN Infinity
           ELSE (xNum * xNum * FracScale) \div (xRange * xRange),
           IF finite THEN SinTurns(xNum, xRange) ELSE NaN,
           IF finite THEN SinTurns(4 * xNum + xRange, 4 * xRange) ELSE NaN,
           IF finite THEN SinTurns(2 * xNum, xRange) ELSE NaN,
           Divide(ma3Num - model.yMin * ma3Den, yRange * ma3Den),
           Divide(ma5Num - model.yMin * ma5Den, yRange * ma5Den),
           Divide(momentum, yRange),
           IF yRange = 0 THEN (IF volatility = 0 THEN NaN ELSE Infinity)
           ELSE volatility \div yRange >>

-----------------------------------------------------------------------------
(* ml-utils.ts: calculateR2Score, calculateMSE; page.tsx: calculateVolatility *)

\* width of the significand of a number of the model; a number of the code has 53
MantissaBits == 16

RECURSIVE Float(_, _)
\* the number nearest to p / q >= 0 that MantissaBits bits hold, ties to even, as
\* the fraction num / den
Float(p, q) ==
    IF p = 0 THEN [num |-> 0, den |-> 1]
    ELSE IF p >= (2 ^ MantissaBits) * q
    THEN LET r == Float(p, 2 * q) IN [num |-> 2 * r.num, den |-> r.den]
    ELSE IF p < (2 ^ (MantissaBits - 1)) * q
    THEN LET r == Float(2 * p, q) IN [num |-> r.num, den |-> 2 * r.den]
    ELSE LET f == p \div q
             r == p % q
         IN  [num |-> IF 2 * r > q \/ (2 * r = q /\ f % 2 = 1) THEN f + 1 ELSE f,
              den |-> 1]

\* the sum of two numbers, itself a whole number, rounded
RoundedSum(sum) == IF sum < 2 ^ MantissaBits THEN sum ELSE Float(sum, 1).num

RECURSIVE FloatSum(_)
\* ml-utils.ts:220: actual.reduce((sum, val) => sum + val, 0), each sum rounded
FloatSum(a) ==
    IF a = << >> THEN 0
    ELSE RoundedSum(FloatSum(SubSeq(a, 1, Len(a) - 1)) + a[Len(a)])

\* ml-utils.ts:220: actualMean, as a fraction
ActualMean(actual) == Float(FloatSum(actual), Len(actual))

\* ml-utils.ts:222,226: totalSumSquares === 0, a sum of squares being 0 when
\* every val - actualMean is
TotalSumSquaresIsZero(actual) ==
    LET actualMean == ActualMean(actual)
    IN  \A i \in 1..Len(actual) : actual[i] * actualMean.den = actualMean.num

\* a negative number beyond the range of every other: 1 - residualSumSquares /
\* totalSumSquares when totalSumSquares is what rounding left of zero
Beyond == 1 - Infinity

\* sum of (actual[i] - predicted[i])^2
SquaredErrors(actual, predicted) ==
    SumSeq([i \in 1..Len(actual) |->
               (actual[i] - predicted[i]) * (actual[i] - predicted[i])])

\* calculateR2Score as it would be returning the ratio of the sums of squares
calculateR2ScoreAsRatio(actual, predicted) ==
    IF Len(actual) # Len(predicted)
    THEN Throw("Actual and predicted arrays must have the same length")
    ELSE IF HasNaN(actual) \/ HasNaN(predicted) THEN Return(0)
    ELSE IF Len(actual) = 0 THEN Return(0)
    ELSE LET n == Len(actual)
             nTotalSumSquares ==
                 n * SumProd(actual, actual) - SumSeq(actual) * SumSeq(actual)
             residualSumSquares == SquaredErrors(actual, predicted)
         IN  IF TotalSumSquaresIsZero(actual) THEN Return(0)
             ELSE IF \A i \in 1..n : actual[i] = actual[1]
             THEN Return(IF residualSumSquares = 0 THEN 0 ELSE Infinity)
             ELSE Return(((residualSumSquares * n * 100) \div nTotalSumSquares)
                             * (FracScale \div 100))

\* ml-utils.ts:206-234; arrays in 1/PriceScale rupee, the score in 1/FracScale,
\* kept to two decimals. The rounding of actualMean is computed, as it decides
\* whether totalSumSquares is 0; the rounding of the other sums, which moves
\* the score by less than the two decimals kept, is not
calculateR2Score(actual, predicted) ==
    IF Len(actual) # Len(predicted)
    THEN Throw("Actual and predicted arrays must have the same length")
    ELSE IF HasNaN(actual) \/ HasNaN(predicted) THEN Return(0)
    ELSE IF Len(actual) = 0 THEN Return(0)
    ELSE LET n == Len(actual)
             \* n * totalSumSquares: n * sum (val - actualMean)^2
             nTotalSumSquares ==
                 n * SumProd(actual, actual) - SumSeq(actual) * SumSeq(actual)
             residualSumSquares == SquaredErrors(actual, predicted)
         IN  IF TotalSumSquaresIsZero(actual) THEN Return(0)
             ELSE IF \A i \in 1..n : actual[i] = actual[1]
             THEN Return(IF residualSumSquares = 0 THEN FracScale ELSE Beyond)
             ELSE Return(FracScale - ((residualSumSquares * n * 100) \div nTotalSumSquares)
                                         * (FracScale \div 100))

\* calculateMSE as it would be with the NaN guard before the length check
calculateMSENaNFirst(actual, predicted) ==
    IF HasNaN(actual) \/ HasNaN(predicted) THEN Return(0)
    ELSE IF Len(actual) # Len(predicted)
    THEN Throw("Actual and predicted arrays must have the same length")
    ELSE IF Len(actual) = 0 THEN Return(0)
    ELSE Return((SquaredErrors(actual, predicted) * FracScale)
                    \div (Len(actual) * PriceScale * PriceScale))

\* calculateMSE as it would be without the isNaN guard of its result
calculateMSEUnguarded(actual, predicted) ==
    IF Len(actual) # Len(predicted)
    THEN Throw("Actual and predicted arrays must have the same length")
    ELSE IF HasNaN(actual) \/ HasNaN(predicted) THEN Return(0)
    ELSE IF Len(actual) = 0 THEN Return(NaN)
    ELSE Return((SquaredErrors(actual, predicted) * FracScale)
                    \div (Len(actual) * PriceScale * PriceScale))

\* ml-utils.ts:237-259; arrays in 1/PriceScale rupee, the error in 1/FracScale rupee^2
calculateMSE(actual, predicted) ==
    IF Len(actual) # Len(predicted)
    THEN Throw("Actual and predicted arrays must have the same length")
    ELSE IF HasNaN(actual) \/ HasNaN(predicted) THEN Return(0)
    ELSE IF Len(actual) = 0 THEN Return(0)
    ELSE Return((SquaredErrors(actual, predicted) * FracScale)
                    \div (Len(actual) * PriceScale * PriceScale))

\* page.tsx:128-134, in 1/FracScale
calculateVolatility(prices) ==
    IF Len(prices) < 2 THEN 0 ELSE StdevOfReturns(prices)

-----------------------------------------------------------------------------
(* page.tsx: the enhanced path after training, lines 87-116 *)

ToPriceScale(prices) == [i \in 1..Len(prices) |-> prices[i] * PriceScale]

\* page.tsx:98-106, in 1/ConfScale percent
EnhancedConfidence(r2Score, mse, currentPrice, volatility) ==
    IF IsNaN(currentPrice) \/ IsNaN(volatility) THEN NaN
    ELSE LET baseConfidence    == MathMax(0, MathMin(100 * ConfScale, r2Score))
             mseConfidence     == MathMax(0, 100 * ConfScale - mse \div currentPrice)
             volatilityPenalty == MathMin(20 * ConfScale,
                                          (volatility * 10 * ConfScale) \div FracScale)
         IN  Clamp(40 * ConfScale, 95 * ConfScale,
                   (baseConfidence * 6 + mseConfidence * 4) \div 10 - volatilityPenalty)

\* EnhancedRaw with the current price read from the processed series
EnhancedRawFromProcessed(sd, processed, netOuts, nextOut) ==
    LET model        == TrainedModel(processed.xs, processed.prices)
        predictions  == getPredictionsForData(model, processed.xs, netOuts)
        nextPrice    == predictNextDay(model, nextOut)
        r2Score      == calculateR2Score(ToPriceScale(processed.prices), predictions)
        mse          == calculateMSE(ToPriceScale(processed.prices), predictions)
        currentPrice == processed.prices[Len(processed.prices)]
        changeNum    == IF IsNaN(currentPrice) THEN NaN
                        ELSE nextPrice - currentPrice * PriceScale
        volatility   == calculateVolatility(processed.prices)
    IN  [threw |-> r2Score.threw \/ mse.threw,
         currentPrice |-> currentPrice, nextNum |-> nextPrice, changeNum |-> changeNum,
         den |-> PriceScale,
         confidence |-> IF r2Score.threw \/ mse.threw THEN NaN
                        ELSE EnhancedConfidence(r2Score.value[1], mse.value[1],
                                                currentPrice, volatility)]

\* The unrounded quantities of the enhanced path for a trained model whose
\* network gives netOuts on the training indices and nextOut on the next index
EnhancedRaw(sd, processed, netOuts, nextOut) ==
    LET model        == TrainedModel(processed.xs, processed.prices)
        predictions  == getPredictionsForData(model, processed.xs, netOuts)
        nextPrice    == predictNextDay(model, nextOut)
        r2Score      == calculateR2Score(ToPriceScale(processed.prices), predictions)
        mse          == calculateMSE(ToPriceScale(processed.prices), predictions)
        currentPrice == sd[Len(sd)].price
        changeNum    == IF IsNaN(currentPrice) THEN NaN
                        ELSE nextPrice - currentPrice * PriceScale
        volatility   == calculateVolatility(processed.prices)
    IN  [threw |-> r2Score.threw \/ mse.threw,
         currentPrice |-> currentPrice, nextNum |-> nextPrice, changeNum |-> changeNum,
         den |-> PriceScale,
         confidence |-> IF r2Score.threw \/ mse.threw THEN NaN
                        ELSE EnhancedConfidence(r2Score.value[1], mse.value[1],
                                                currentPrice, volatility)]

EnhancedResult(sd, processed, netOuts, nextOut) ==
    LET r == EnhancedRaw(sd, processed, netOuts, nextOut)
    IN  IF r.threw THEN Throw("metrics")
        ELSE Return(MakeResult(r.currentPrice, r.nextNum, r.changeNum, r.den, r.confidence))

-----------------------------------------------------------------------------
(* Inputs: the stockData a response can carry *)

PriceValues == {BasePrice - 1, BasePrice, BasePrice + 1, NaN}

\* the series lengths around the code's thresholds
Lengths == {1, MinPoints - 1, MinPoints, LongWindow - 1, LongWindow, MaxLen}

Tails == [1..TailLen -> PriceValues]

\* dates are day numbers: ascending, the last one repeating the one before it, or
\* the last two out of order
DateKinds == {"ascending", "repeated", "swapped"}

DateAt(i, n, kind) ==
    CASE kind = "ascending" -> i
      [] kind = "repeated"  -> IF i = n /\ n > 1 THEN n - 1 ELSE i
      [] kind = "swapped"   -> IF n > 1 /\ i = n THEN n - 1
                               ELSE IF n > 1 /\ i = n - 1 THEN n ELSE i

Series(n, tail, kind) ==
    [i \in 1..n |->
        [date  |-> DateAt(i, n, kind),
         price |-> IF i <= n - TailLen THEN BasePrice ELSE tail[i - (n - TailLen)]]]

Inputs == {Series(n, tail, kind) : n \in Lengths, tail \in Tails, kind \in DateKinds}

\* a valid Series: at least MinPoints points, every price a positive number
ValidSeries(sd) == /\ Len(sd) >= MinPoints
                   /\ \A i \in 1..Len(sd) : ~IsNaN(sd[i].price) /\ sd[i].price > 0

-----------------------------------------------------------------------------
(* The page and one prediction request *)

\* page.tsx:83, setTimeout(..., 8000), in seconds
InnerTimeout == 8
\* page.tsx:232, setTimeout(..., 12000), in seconds
OuterTimeout == 12

MaxNow == MaxFetchDelay + OuterTimeout + 1

Unarmed == [state |-> "unarmed", deadline |-> 0]

\* setTimeout(callback, delay) called at time t
SetTimeout(t, delay) == [state |-> "armed", deadline |-> t + delay]

Fired(timer) == [timer EXCEPT !.state = "fired"]

\* a timer's callback can run: the delay has passed
Due(timer) == timer.state = "armed" /\ now >= timer.deadline

\* RunsAfter as it would be on a host that keeps no order among due timers
RunsAfterNever(timer, other) == FALSE

\* The host runs the callbacks of due timers in the order of their deadlines:
\* timer waits for other while other is armed and is to run no later
RunsAfter(timer, other) == other.state = "armed" /\ other.deadline <= timer.deadline

MsgBlank == "Please enter a stock symbol"

MsgOuterTimeout == "Prediction timeout - using statistical analysis"

\* page.tsx:205-225: what the fetch of /api/stock can bring
FetchFailures == {"rejected", "notOk", "unsuccessful", "empty"}

\* page.tsx:210-225 and 239: the message the catch shows for a failed fetch
FetchError(outcome) ==
    CASE outcome = "rejected"     -> "An error occurred while predicting stock price"
      [] outcome = "notOk"        -> "Failed to fetch stock data"
      [] outcome = "unsuccessful" -> "API returned unsuccessful response"
      [] outcome = "empty"        -> "No stock data available"

\* the series a response carries in this model: 9 or 10 points in date order, the
\* last price any value
ResponseInputs ==
    {sd \in Inputs :
        /\ Len(sd) \in {MinPoints - 1, MinPoints}
        /\ \A i \in 1..Len(sd) : sd[i].date = i
        /\ sd[Len(sd) - 1].price = BasePrice + 1
        /\ \A i \in 1..(Len(sd) - 2) : sd[i].price = BasePrice}

\* no function of ml-utils.ts is called on its own
NoCall == [fn |-> "none", args |-> << >>, out |-> None]

Init ==
    /\ stockSymbolBlank = TRUE
    /\ loading = FALSE
    /\ error = ""
    /\ stockData = << >>
    /\ prediction = None
    /\ hpc = "idle"
    /\ requested = FALSE
    /\ epc = "idle"
    /\ epsState = "none"
    /\ epsValue = None
    /\ epsError = ""
    /\ fastResult = None
    /\ processedData = None
    /\ innerRace = "none"
    /\ outerRace = "none"
    /\ training = "none"
    /\ xsTensor = "none"
    /\ ysTensor = "none"
    /\ tfModel = "none"
    /\ innerTimer = Unarmed
    /\ outerTimer = Unarmed
    /\ now = 0
    /\ path = "none"
    /\ fallbackWhy = "none"
    /\ unrounded = [fast |-> None, enhanced |-> None]
    /\ lib = NoCall
    /\ repeats = 0

pageVars == <<loading, error, stockData, prediction, hpc>>

epsVars == <<epc, epsState, epsValue, epsError, fastResult, processedData, innerRace,
             path, fallbackWhy, unrounded>>

trainVars == <<training, xsTensor, ysTensor, tfModel>>

\* synchronous code is running: no timer callback or training step can interleave
Running == epc \in {"fast", "normalize", "train"} \/ hpc = "call"

-----------------------------------------------------------------------------
(* handlePredict: what its continuation does to the page, page.tsx:235-242 *)

Page == [loading |-> loading, error |-> error, prediction |-> prediction]

\* OnResolved as it would be without the finally
OnResolvedStillLoading(pg, value) == [pg EXCEPT !.prediction = value]

\* page.tsx:236 and the finally of 240-241
OnResolved(pg, value) == [pg EXCEPT !.prediction = value, !.loading = FALSE]

\* OnRejected as it would be if the catch swallowed the error
OnRejectedSilently(pg, message) == [pg EXCEPT !.loading = FALSE]

\* the catch of page.tsx:238-239 and the finally of 240-241
OnRejected(pg, message) == [pg EXCEPT !.error = message, !.loading = FALSE]

\* SettleOuter as it would be if a later settlement were not ignored
SettleOuterAgain(by, outcome) ==
    LET pg == IF outcome.threw THEN OnRejected(Page, outcome.message)
              ELSE OnResolved(Page, outcome.value)
    IN  /\ outerRace' = by
        /\ loading' = pg.loading
        /\ error' = pg.error
        /\ prediction' = pg.prediction
        /\ hpc' = "done"
        /\ UNCHANGED stockData

\* page.tsx:235: Promise.race([predictionPromise, timeoutPromise]) settles by the
\* first of the two to settle; a later settlement of the other is ignored
SettleOuter(by, outcome) ==
    IF outerRace = "undecided"
    THEN LET pg == IF outcome.threw THEN OnRejected(Page, outcome.message)
                   ELSE OnResolved(Page, outcome.value)
         IN  /\ outerRace' = by
             /\ loading' = pg.loading
             /\ error' = pg.error
             /\ prediction' = pg.prediction
             /\ hpc' = "done"
             /\ UNCHANGED stockData
    ELSE UNCHANGED <<outerRace, pageVars>>

-----------------------------------------------------------------------------
(* enhancedPredictStock, page.tsx:68-125 *)

\* FirstStep as it would be if the fallback were left to the catch
FirstStepNormalize == "normalize"

\* page.tsx:69-70: the call starts with the fallback computation
FirstStep == "fast"

\* InnerCatch as it would be if the inner catch rethrew
InnerCatchRethrows(fr) == [threw |-> TRUE, message |-> "ML timeout", value |-> None]

\* page.tsx:118-120: catch { return fastResult }
InnerCatch(fr) == [threw |-> FALSE, message |-> "", value |-> fr]

\* page.tsx:122-124: catch (error) { throw error }
OuterCatch(message) == [threw |-> TRUE, message |-> message, value |-> None]

\* the promise of enhancedPredictStock settles with outcome; producedBy is the path
\* that made the value, why the reason the inner catch ran
SettleEps(outcome, producedBy, why) ==
    /\ epsState' = IF outcome.threw THEN "rejected" ELSE "resolved"
    /\ epsValue' = outcome.value
    /\ epsError' = outcome.message
    /\ path' = producedBy
    /\ fallbackWhy' = why
    /\ epc' = "done"
    /\ SettleOuter("prediction", outcome)

\* page.tsx:70
StepFast ==
    /\ epc = "fast"
    /\ LET r == fastPredictStock(stockData)
       IN  IF r.threw
           THEN /\ SettleEps(OuterCatch(r.message), "none", "none")
                /\ UNCHANGED <<fastResult, unrounded>>
           ELSE /\ fastResult' = r.value
                /\ unrounded' = [unrounded EXCEPT !.fast = Some(FastRaw(stockData))]
                /\ epc' = "normalize"
                /\ UNCHANGED <<epsState, epsValue, epsError, path, fallbackWhy,
                               outerRace, pageVars>>
    /\ UNCHANGED <<stockSymbolBlank, requested, processedData, innerRace, trainVars,
                   innerTimer, outerTimer, now>>
    /\ UNCHANGED <<lib, repeats>>

\* page.tsx:74-79
StepNormalize ==
    /\ epc = "normalize"
    /\ LET r == processStockData(TimeSeries(stockData))
       IN  IF r.threw
           THEN /\ SettleEps(InnerCatch(fastResult), "fallback", "normalizer")
                /\ UNCHANGED processedData
           ELSE /\ processedData' = r.value
                /\ epc' = "train"
                /\ UNCHANGED <<epsState, epsValue, epsError, path, fallbackWhy,
                               outerRace, pageVars>>
    /\ UNCHANGED <<stockSymbolBlank, requested, fastResult, unrounded, innerRace,
                   trainVars, innerTimer, outerTimer, now>>
    /\ UNCHANGED <<lib, repeats>>

\* page.tsx:81-86 with ml-utils.ts:87-134: the network and its input tensors are
\* created, the first fit starts, the inner timer is armed and the call awaits the race
StepTrainStart ==
    /\ epc = "train"
    /\ tfModel' = "live"
    /\ xsTensor' = "live"
    /\ ysTensor' = "live"
    /\ training' = "phase1"
    /\ innerTimer' = SetTimeout(now, InnerTimeout)
    /\ innerRace' = "undecided"
    /\ epsState' = "pending"
    /\ epc' = "await"
    /\ UNCHANGED <<stockSymbolBlank, requested, pageVars, epsValue, epsError, fastResult,
                   processedData, path, fallbackWhy, unrounded, outerRace, outerTimer, now>>
    /\ UNCHANGED <<lib, repeats>>

\* ml-utils.ts:134-150: the first fit resolves, the model is recompiled and the
\* second fit starts
TrainPhase1Done ==
    /\ ~Running
    /\ training = "phase1"
    /\ training' = "phase2"
    /\ UNCHANGED <<stockSymbolBlank, requested, pageVars, epsVars, outerRace, xsTensor,
                   ysTensor, tfModel, innerTimer, outerTimer, now>>
    /\ UNCHANGED <<lib, repeats>>

\* SettleInner as it would be if line 86 awaited modelPromise alone
SettleInnerByModelOnly(by, outcome, producedBy, why) ==
    IF innerRace = "undecided" /\ by = "model"
    THEN /\ innerRace' = by
         /\ SettleEps(outcome, producedBy, why)
    ELSE UNCHANGED <<innerRace, epsState, epsValue, epsError, path, fallbackWhy, epc,
                     outerRace, pageVars>>

\* page.tsx:86: Promise.race([modelPromise, timeoutPromise]) settles by the first
\* of the two; the continuation of lines 87-120 runs with what it settled with
SettleInner(by, outcome, producedBy, why) ==
    IF innerRace = "undecided"
    THEN /\ innerRace' = by
         /\ SettleEps(outcome, producedBy, why)
    ELSE UNCHANGED <<innerRace, epsState, epsValue, epsError, path, fallbackWhy, epc,
                     outerRace, pageVars>>

\* ml-utils.ts:150-177 and page.tsx:87-116: the second fit resolves, the finally
\* disposes the tensors, and inference and the metrics run on the returned model.
\* The network's outputs are profile and nextOut; inference may throw.
TrainResolve(profile, nextOut, inferenceThrows) ==
    /\ ~Running
    /\ training = "phase2"
    /\ training' = "resolved"
    /\ xsTensor' = "disposed"
    /\ ysTensor' = "disposed"
    /\ LET processed == processedData[1]
           model     == TrainedModel(processed.xs, processed.prices)
           netOuts   == NetOutputs(model, processed.xs, profile)
           r         == EnhancedResult(stockData, processed, netOuts, nextOut)
       IN  /\ nextOut \in NextOutputs(model)
           /\ IF inferenceThrows \/ r.threw
              THEN /\ SettleInner("model", InnerCatch(fastResult), "fallback", "inference")
                   /\ UNCHANGED unrounded
              ELSE /\ SettleInner("model", r, "enhanced", "none")
                   /\ unrounded' =
                        IF innerRace = "undecided"
                        THEN [unrounded EXCEPT !.enhanced =
                                Some(EnhancedRaw(stockData, processed, netOuts, nextOut))]
                        ELSE unrounded
    /\ UNCHANGED <<stockSymbolBlank, requested, fastResult, processedData, tfModel,
                   innerTimer, outerTimer, now>>
    /\ UNCHANGED <<lib, repeats>>

\* ml-utils.ts:134-177: a fit rejects; the finally disposes the tensors
TrainReject ==
    /\ ~Running
    /\ training \in {"phase1", "phase2"}
    /\ training' = "rejected"
    /\ xsTensor' = "disposed"
    /\ ysTensor' = "disposed"
    /\ SettleInner("model", InnerCatch(fastResult), "fallback", "training")
    /\ UNCHANGED <<stockSymbolBlank, requested, fastResult, processedData, tfModel,
                   unrounded, innerTimer, outerTimer, now>>
    /\ UNCHANGED <<lib, repeats>>

\* InnerTimerFire as it would be if the timeout started the training again
InnerTimerFireRetries ==
    /\ ~Running
    /\ Due(innerTimer)
    /\ innerTimer' = SetTimeout(now, InnerTimeout)
    /\ training' = "phase1"
    /\ UNCHANGED <<stockSymbolBlank, requested, pageVars, epsVars, outerRace, xsTensor,
                   ysTensor, tfModel, outerTimer, now>>
    /\ UNCHANGED <<lib, repeats>>

\* page.tsx:82-84: the inner timer's callback rejects timeoutPromise
InnerTimerFire ==
    /\ ~Running
    /\ Due(innerTimer)
    /\ innerTimer' = Fired(innerTimer)
    /\ SettleInner("timer", InnerCatch(fastResult), "fallback", "timeout")
    /\ UNCHANGED <<stockSymbolBlank, requested, fastResult, processedData, trainVars,
                   unrounded, outerTimer, now>>
    /\ UNCHANGED <<lib, repeats>>

-----------------------------------------------------------------------------
(* The page: handlePredict, page.tsx:194-243, and the controls that reach it *)

\* page.tsx:377 and 432: the symbol input and the quick-select buttons, disabled
\* while loading
SetStockSymbol ==
    /\ ~loading
    /\ stockSymbolBlank' = ~stockSymbolBlank
    /\ UNCHANGED <<requested, pageVars, epsVars, outerRace, trainVars, innerTimer,
                   outerTimer, now>>
    /\ UNCHANGED <<lib, repeats>>

\* page.tsx:195-198: Enter in the symbol input with a blank symbol
HandlePredictBlank ==
    /\ ~loading
    /\ stockSymbolBlank
    /\ error' = MsgBlank
    /\ hpc' = "blank"
    /\ UNCHANGED <<stockSymbolBlank, requested, loading, stockData, prediction, epsVars,
                   outerRace, trainVars, innerTimer, outerTimer, now>>
    /\ UNCHANGED <<lib, repeats>>

\* page.tsx:200-207: the predict button or Enter, both disabled while loading;
\* the model follows one request
HandlePredictStart ==
    /\ ~loading
    /\ ~stockSymbolBlank
    /\ ~requested
    /\ requested' = TRUE
    /\ loading' = TRUE
    /\ error' = ""
    /\ prediction' = None
    /\ stockData' = << >>
    /\ hpc' = "fetch"
    /\ UNCHANGED <<stockSymbolBlank, epsVars, outerRace, trainVars, innerTimer,
                   outerTimer, now>>
    /\ UNCHANGED <<lib, repeats>>

\* page.tsx:207-225 and 238-242: the fetch fails, or its response is refused
FetchFail(outcome) ==
    /\ hpc = "fetch"
    /\ LET pg == OnRejected(Page, FetchError(outcome))
       IN  /\ loading' = pg.loading
           /\ error' = pg.error
           /\ prediction' = pg.prediction
    /\ hpc' = "done"
    /\ UNCHANGED <<stockSymbolBlank, requested, stockData, epsVars, outerRace,
                   trainVars, innerTimer, outerTimer, now>>
    /\ UNCHANGED <<lib, repeats>>

\* page.tsx:227-230: the response carries sd; enhancedPredictStock is called
FetchData(sd) ==
    /\ hpc = "fetch"
    /\ stockData' = sd
    /\ hpc' = "call"
    /\ epc' = FirstStep
    /\ UNCHANGED <<stockSymbolBlank, requested, loading, error, prediction, epsState,
                   epsValue, epsError, fastResult, processedData, innerRace, path,
                   fallbackWhy, unrounded, outerRace, trainVars, innerTimer,
                   outerTimer, now>>
    /\ UNCHANGED <<lib, repeats>>

\* page.tsx:231-235: enhancedPredictStock has returned its promise; the outer timer
\* is armed and the call awaits the race, which a settled promise decides at once
ArmOuterTimer ==
    /\ hpc = "call"
    /\ epc \in {"await", "done"}
    /\ outerTimer' = SetTimeout(now, OuterTimeout)
    /\ CASE epsState = "pending" ->
              /\ outerRace' = "undecided"
              /\ hpc' = "race"
              /\ UNCHANGED <<loading, error, prediction>>
         [] epsState = "resolved" ->
              LET pg == OnResolved(Page, epsValue)
              IN  /\ outerRace' = "prediction"
                  /\ hpc' = "done"
                  /\ loading' = pg.loading
                  /\ error' = pg.error
                  /\ prediction' = pg.prediction
         [] epsState = "rejected" ->
              LET pg == OnRejected(Page, epsError)
              IN  /\ outerRace' = "prediction"
                  /\ hpc' = "done"
                  /\ loading' = pg.loading
                  /\ error' = pg.error
                  /\ prediction' = pg.prediction
    /\ UNCHANGED <<stockSymbolBlank, requested, stockData, epsVars, trainVars,
                   innerTimer, now>>
    /\ UNCHANGED <<lib, repeats>>

\* page.tsx:231-233: the outer timer's callback rejects timeoutPromise
OuterTimerCallback ==
    /\ outerTimer' = Fired(outerTimer)
    /\ SettleOuter("timer", OuterCatch(MsgOuterTimeout))
    /\ UNCHANGED <<stockSymbolBlank, requested, epsVars, trainVars, innerTimer, now>>
    /\ UNCHANGED <<lib, repeats>>

\* the host runs the callback after the inner timer's, which was armed earlier
\* with the shorter delay
OuterTimerFire ==
    /\ ~Running
    /\ Due(outerTimer)
    /\ ~RunsAfter(outerTimer, innerTimer)
    /\ OuterTimerCallback

\* a host that runs the callbacks of due timers in any order
OuterTimerFireAnyOrder ==
    /\ ~Running
    /\ Due(outerTimer)
    /\ OuterTimerCallback

\* a second passes while the fetch or the race is awaited
Tick ==
    /\ ~Running
    /\ requested
    /\ now < MaxNow
    /\ hpc = "fetch" => now < MaxFetchDelay
    /\ now' = now + 1
    /\ UNCHANGED <<stockSymbolBlank, requested, pageVars, epsVars, outerRace, trainVars,
                   innerTimer, outerTimer>>
    /\ UNCHANGED <<lib, repeats>>

Next ==
    \/ SetStockSymbol
    \/ HandlePredictBlank
    \/ HandlePredictStart
    \/ \E outcome \in FetchFailures : FetchFail(outcome)
    \/ \E sd \in ResponseInputs : FetchData(sd)
    \/ StepFast
    \/ StepNormalize
    \/ StepTrainStart
    \/ ArmOuterTimer
    \/ TrainPhase1Done
    \/ TrainReject
    \/ \E profile \in NetProfiles, nextOut \in (0..NetGrid) \cup {NaN},
          inferenceThrows \in BOOLEAN : TrainResolve(profile, nextOut, inferenceThrows)
    \/ InnerTimerFire
    \/ OuterTimerFire
    \/ Tick

\* the page on a host that runs due timers in deadline order
Spec == Init /\ [][Next]_vars

-----------------------------------------------------------------------------
(* enhancedPredictStock called on any input, on a host where no timer comes due *)

InitCall ==
    /\ stockSymbolBlank = TRUE
    /\ loading = FALSE
    /\ error = ""
    /\ stockData \in Inputs
    /\ prediction = None
    /\ hpc = "idle"
    /\ requested = FALSE
    /\ epc = FirstStep
    /\ epsState = "none"
    /\ epsValue = None
    /\ epsError = ""
    /\ fastResult = None
    /\ processedData = None
    /\ innerRace = "none"
    /\ outerRace = "none"
    /\ training = "none"
    /\ xsTensor = "none"
    /\ ysTensor = "none"
    /\ tfModel = "none"
    /\ innerTimer = Unarmed
    /\ outerTimer = Unarmed
    /\ now = 0
    /\ path = "none"
    /\ fallbackWhy = "none"
    /\ unrounded = [fast |-> None, enhanced |-> None]
    /\ lib = NoCall
    /\ repeats = 0

NextCall ==
    \/ StepFast
    \/ StepNormalize
    \/ StepTrainStart
    \/ TrainPhase1Done
    \/ TrainReject
    \/ \E profile \in NetProfiles, nextOut \in (0..NetGrid) \cup {NaN},
          inferenceThrows \in BOOLEAN : TrainResolve(profile, nextOut, inferenceThrows)

SpecCall == InitCall /\ [][NextCall]_vars

-----------------------------------------------------------------------------
(* Other hosts *)

NextAnyOrder ==
    \/ SetStockSymbol
    \/ HandlePredictBlank
    \/ HandlePredictStart
    \/ \E outcome \in FetchFailures : FetchFail(outcome)
    \/ \E sd \in ResponseInputs : FetchData(sd)
    \/ StepFast
    \/ StepNormalize
    \/ StepTrainStart
    \/ ArmOuterTimer
    \/ TrainPhase1Done
    \/ TrainReject
    \/ \E profile \in NetProfiles, nextOut \in (0..NetGrid) \cup {NaN},
          inferenceThrows \in BOOLEAN : TrainResolve(profile, nextOut, inferenceThrows)
    \/ InnerTimerFire
    \/ OuterTimerFireAnyOrder
    \/ Tick

\* the page on a host that promises a timer only its minimum delay, and runs the
\* callbacks of due timers in any order
SpecAnyOrder == Init /\ [][NextAnyOrder]_vars

\* The page on a host whose event loop keeps running: handlePredict runs on to its
\* await, time passes, and the callback of a due inner timer is run.  Training is
\* left free to never settle.
FairSpec ==
    /\ Spec
    /\ WF_vars(ArmOuterTimer)
    /\ WF_vars(Tick)
    /\ WF_vars(InnerTimerFire)

-----------------------------------------------------------------------------
(* The page used for one request after another *)

\* the requests followed after the first
MaxRepeats == 2

\* HandlePredictAgain as it would be with the controls enabled while loading
HandlePredictAgainWhileLoading ==
    /\ ~stockSymbolBlank
    /\ requested
    /\ repeats < MaxRepeats
    /\ repeats' = repeats + 1
    /\ loading' = TRUE
    /\ error' = ""
    /\ prediction' = None
    /\ stockData' = << >>
    /\ hpc' = "fetch"
    /\ epc' = "idle"
    /\ epsState' = "none"
    /\ epsValue' = None
    /\ epsError' = ""
    /\ fastResult' = None
    /\ processedData' = None
    /\ innerRace' = "none"
    /\ outerRace' = "none"
    /\ path' = "none"
    /\ fallbackWhy' = "none"
    /\ unrounded' = [fast |-> None, enhanced |-> None]
    /\ training' = "none"
    /\ xsTensor' = "none"
    /\ ysTensor' = "none"
    /\ tfModel' = "none"
    /\ innerTimer' = Unarmed
    /\ outerTimer' = Unarmed
    /\ now' = 0
    /\ UNCHANGED <<stockSymbolBlank, requested, lib>>

\* page.tsx:200-207, 378 and 395-396: the predict button or Enter once a request
\* has ended.  The new call has promises, timers and a training of its own; what
\* is left of the earlier call (a training still running, timers still armed)
\* settles promises that nothing awaits any more and is followed no further.  The
\* clock counts from the start of the request.
HandlePredictAgain ==
    /\ ~loading
    /\ ~stockSymbolBlank
    /\ requested
    /\ repeats < MaxRepeats
    /\ repeats' = repeats + 1
    /\ loading' = TRUE
    /\ error' = ""
    /\ prediction' = None
    /\ stockData' = << >>
    /\ hpc' = "fetch"
    /\ epc' = "idle"
    /\ epsState' = "none"
    /\ epsValue' = None
    /\ epsError' = ""
    /\ fastResult' = None
    /\ processedData' = None
    /\ innerRace' = "none"
    /\ outerRace' = "none"
    /\ path' = "none"
    /\ fallbackWhy' = "none"
    /\ unrounded' = [fast |-> None, enhanced |-> None]
    /\ training' = "none"
    /\ xsTensor' = "none"
    /\ ysTensor' = "none"
    /\ tfModel' = "none"
    /\ innerTimer' = Unarmed
    /\ outerTimer' = Unarmed
    /\ now' = 0
    /\ UNCHANGED <<stockSymbolBlank, requested, lib>>

NextRepeat ==
    \/ HandlePredictAgain
    \/ SetStockSymbol
    \/ HandlePredictBlank
    \/ HandlePredictStart
    \/ \E outcome \in FetchFailures : FetchFail(outcome)
    \/ \E sd \in ResponseInputs : FetchData(sd)
    \/ StepFast
    \/ StepNormalize
    \/ StepTrainStart
    \/ ArmOuterTimer
    \/ TrainPhase1Done
    \/ TrainReject
    \/ \E profile \in NetProfiles, nextOut \in (0..NetGrid) \cup {NaN},
          inferenceThrows \in BOOLEAN : TrainResolve(profile, nextOut, inferenceThrows)
    \/ InnerTimerFire
    \/ OuterTimerFire
    \/ Tick

SpecRepeat == Init /\ [][NextRepeat]_vars

-----------------------------------------------------------------------------
(* fastPredictStock called on rising series and on arithmetic progressions *)

\* a rising series starts at BigStep or HighStart rupees and rises by 1 or BigStep a day
BigStep == 8
HighStart == 300
\* the last prices of a progression differ by -MaxSlope .. MaxSlope a day
MaxSlope == 2

\* the prices that start at start and differ by steps
PricesFrom(start, steps) ==
    [i \in 1..(Len(steps) + 1) |-> start + SumSeq(SubSeq(steps, 1, i - 1))]

\* a series with these prices, one a day
Dated(prices) == [i \in 1..Len(prices) |-> [date |-> i, price |-> prices[i]]]

RisingInputs ==
    {Dated(PricesFrom(start, steps)) :
        start \in {BigStep, HighStart}, steps \in [1..(MinPoints - 1) -> {1, BigStep}]}

Progression(start, d, n) == [i \in 1..n |-> start + d * (i - 1)]

\* what comes before the last prices of a progression that starts at start
Prefixes(start) == {<< >>, <<start>>, <<start + 1, start - 1, start + 2>>}

ProgressionsFrom(start) ==
    {Dated(prefix \o Progression(start, d, RegressionWindow)) :
        prefix \in Prefixes(start), d \in (0 - MaxSlope)..MaxSlope}

ProgressionInputs ==
    ProgressionsFrom(HighStart \div 3)
        \cup ProgressionsFrom(BasePrice + RegressionWindow * MaxSlope)

InitFast ==
    /\ stockSymbolBlank = TRUE
    /\ loading = FALSE
    /\ error = ""
    /\ stockData \in RisingInputs \cup ProgressionInputs
    /\ prediction = None
    /\ hpc = "idle"
    /\ requested = FALSE
    /\ epc = FirstStep
    /\ epsState = "none"
    /\ epsValue = None
    /\ epsError = ""
    /\ fastResult = None
    /\ processedData = None
    /\ innerRace = "none"
    /\ outerRace = "none"
    /\ training = "none"
    /\ xsTensor = "none"
    /\ ysTensor = "none"
    /\ tfModel = "none"
    /\ innerTimer = Unarmed
    /\ outerTimer = Unarmed
    /\ now = 0
    /\ path = "none"
    /\ fallbackWhy = "none"
    /\ unrounded = [fast |-> None, enhanced |-> None]
    /\ lib = NoCall
    /\ repeats = 0

NextFast == StepFast

\* the first statement of enhancedPredictStock, page.tsx:70, on these series
SpecFast == InitFast /\ [][NextFast]_vars


-----------------------------------------------------------------------------
(* The functions of ml-utils.ts, each called on its own *)

\* longest array given to calculateR2Score and calculateMSE
MaxArrayLen == 3

\* the elements of these arrays, in 1/PriceScale rupee
MetricValues == {0, 1, 3, NaN}

Arrays == UNION {[1..n -> MetricValues] : n \in 0..MaxArrayLen}

\* the series a model is trained on: shorter and longer than the windows of
\* createAdvancedFeatures
TrainingLengths == {1, 2, ShortWindow + 1, ShortWindow + 2}

TrainingSeries ==
    {Prices(Series(n, tail, "ascending")) :
        n \in TrainingLengths, tail \in [1..TailLen -> PriceValues \ {NaN}]}

\* ml-utils.ts:49-54: the model trained on prices, xs being their indices
ModelOf(prices) == TrainedModel(Indices(Len(prices)), prices)

\* ml-utils.ts:83 and 274: the features of every training index; 190: those of
\* nextDayIndex, with the last index where there is no price
FeatureCalls ==
    {<<c.x, c.prices, IF c.x < Len(c.prices) THEN c.x ELSE Len(c.prices) - 1,
       ModelOf(c.prices)>> :
        c \in {c \in [x : 0..(ShortWindow + 2), prices : TrainingSeries] :
                  c.x <= Len(c.prices)}}

\* ml-utils.ts:192-194: what the network gives for features; a NaN among them
\* passes through every layer
NetOutputFor(features) == IF HasNaN(features) THEN {NaN} ELSE (0..NetGrid) \cup {NaN}

\* predictNextDay(model, nextDayIndex), with the output the network gives
PredictCalls ==
    {<<c.model, c.netOut, c.nextDayIndex>> :
        c \in {c \in [model : {ModelOf(prices) : prices \in TrainingSeries},
                      netOut : (0..NetGrid) \cup {NaN},
                      nextDayIndex : 0..(ShortWindow + 2)] :
                  LET n == Len(c.model.trainingPrices)
                      index == IF c.nextDayIndex < n - 1 THEN c.nextDayIndex ELSE n - 1
                  IN  c.netOut \in NetOutputFor(
                          createAdvancedFeatures(c.nextDayIndex, c.model.trainingPrices,
                                                 index, c.model))}}

\* numbers whose significand takes all of MantissaBits, as that of 123.45
\* takes all the 53 of the code
LongValues ==
    LET low == 2 ^ (MantissaBits - 1) + 2 ^ (MantissaBits - 2) IN low..(low + 7)

\* a constant array of such numbers, with predictions equal to it or one above
LongPairs ==
    {<<[i \in 1..n |-> c], [i \in 1..n |-> c + e]>> :
        n \in 1..MaxArrayLen, c \in LongValues, e \in {0, 1}}

\* ml-utils.ts:271-274: the outputs of the network on xs; the features of an
\* index that has no training price hold NaN, and so does the output
OutputsOn(model, xs, profile) ==
    LET trained == Len(model.trainingPrices)
        known   == NetOutputs(model, Indices(trained), profile)
    IN  [i \in 1..Len(xs) |-> IF i <= trained THEN known[i] ELSE NaN]

\* getPredictionsForData(model, xs) with the outputs the network gives, xs being
\* the training indices or one more
PredictionsCalls ==
    {<<c.model, Indices(Len(c.model.trainingPrices) + c.more),
       OutputsOn(c.model, Indices(Len(c.model.trainingPrices) + c.more), c.profile)>> :
        c \in [model : {ModelOf(prices) : prices \in TrainingSeries},
               more : {0, 1}, profile : NetProfiles]}

\* the latest date of a mapping given to processStockData
MaxDate == 4

\* the mappings of dates to closing prices as texts, the empty one included
Mappings ==
    UNION {[dates -> {NumberToString(p) : p \in PriceValues}] : dates \in SUBSET (1..MaxDate)}

MetricCalls == (Arrays \X Arrays) \cup LongPairs

LibCalls ==
    {[fn |-> fn, args |-> args, out |-> None] :
        fn \in {"calculateR2Score", "calculateMSE"}, args \in MetricCalls}
    \cup {[fn |-> "predictNextDay", args |-> args, out |-> None] : args \in PredictCalls}
    \cup {[fn |-> "createAdvancedFeatures", args |-> args, out |-> None] :
             args \in FeatureCalls}
    \cup {[fn |-> "getPredictionsForData", args |-> args, out |-> None] :
             args \in PredictionsCalls}
    \cup {[fn |-> "processStockData", args |-> <<timeSeries>>, out |-> None] :
             timeSeries \in Mappings}

InitLib ==
    /\ stockSymbolBlank = TRUE
    /\ loading = FALSE
    /\ error = ""
    /\ stockData = << >>
    /\ prediction = None
    /\ hpc = "idle"
    /\ requested = FALSE
    /\ epc = "idle"
    /\ epsState = "none"
    /\ epsValue = None
    /\ epsError = ""
    /\ fastResult = None
    /\ processedData = None
    /\ innerRace = "none"
    /\ outerRace = "none"
    /\ training = "none"
    /\ xsTensor = "none"
    /\ ysTensor = "none"
    /\ tfModel = "none"
    /\ innerTimer = Unarmed
    /\ outerTimer = Unarmed
    /\ now = 0
    /\ path = "none"
    /\ fallbackWhy = "none"
    /\ unrounded = [fast |-> None, enhanced |-> None]
    /\ lib \in LibCalls
    /\ repeats = 0

\* everything but lib
appVars == <<stockSymbolBlank, requested, pageVars, epsVars, outerRace, trainVars,
             innerTimer, outerTimer, now, repeats>>

\* the call of lib has returned or thrown outcome
Called(outcome) == [lib EXCEPT !.out = Some(outcome)]

\* ml-utils.ts:206-234
CallCalculateR2Score ==
    /\ lib.fn = "calculateR2Score"
    /\ lib.out = None
    /\ lib' = Called(calculateR2Score(lib.args[1], lib.args[2]))
    /\ UNCHANGED appVars

\* ml-utils.ts:237-259
CallCalculateMSE ==
    /\ lib.fn = "calculateMSE"
    /\ lib.out = None
    /\ lib' = Called(calculateMSE(lib.args[1], lib.args[2]))
    /\ UNCHANGED appVars

\* ml-utils.ts:181-203
CallPredictNextDay ==
    /\ lib.fn = "predictNextDay"
    /\ lib.out = None
    /\ lib' = Called(Return(predictNextDay(lib.args[1], lib.args[2])))
    /\ UNCHANGED appVars

\* ml-utils.ts:59-81
CallCreateAdvancedFeatures ==
    /\ lib.fn = "createAdvancedFeatures"
    /\ lib.out = None
    /\ lib' = Called(Return(createAdvancedFeatures(lib.args[1], lib.args[2],
                                                   lib.args[3], lib.args[4])))
    /\ UNCHANGED appVars

\* ml-utils.ts:262-297
CallGetPredictionsForData ==
    /\ lib.fn = "getPredictionsForData"
    /\ lib.out = None
    /\ lib' = Called(Return(getPredictionsForData(lib.args[1], lib.args[2], lib.args[3])))
    /\ UNCHANGED appVars

\* ml-utils.ts:17-46
CallProcessStockData ==
    /\ lib.fn = "processStockData"
    /\ lib.out = None
    /\ lib' = Called(processStockData(lib.args[1]))
    /\ UNCHANGED appVars

NextLib ==
    \/ CallProcessStockData
    \/ CallGetPredictionsForData
    \/ CallCalculateR2Score
    \/ CallCalculateMSE
    \/ CallPredictNextDay
    \/ CallCreateAdvancedFeatures

SpecLib == InitLib /\ [][NextLib]_vars

-----------------------------------------------------------------------------
(* Properties *)

TrainingPending == training \in {"phase1", "phase2"}

EpsSettled == epsState \in {"resolved", "rejected"}

\* C1: for a series of at least 10 points, whenever the enhanced path fails (the
\* normalizer throws, training rejects, the inner timer fires first, or inference
\* or the metrics throw) enhancedPredictStock resolves, with the result
\* fastPredictStock computed at the start of the call.
C1_FailureResolvesWithFallback ==
    fallbackWhy # "none" =>
        /\ Len(stockData) >= MinPoints
        /\ epsState = "resolved"
        /\ epsValue # None
        /\ epsValue = fastResult
        /\ epsValue = fastPredictStock(stockData).value

C1_Witness ==
    /\ fallbackWhy = "inference"
    /\ training = "resolved"
    /\ epsState = "resolved"
    /\ epsValue = fastResult

\* C2: once enhancedPredictStock awaits the race it resolves, also when training
\* never settles: then with the fallback result, and at the latest when the inner
\* timer's callback has run.
C2_HangStillResolves ==
    /\ [](innerTimer.state = "fired" => epsState = "resolved")
    /\ (epsState = "pending") ~>
           (/\ epsState = "resolved"
            /\ TrainingPending => innerRace = "timer" /\ epsValue = fastResult)

C2_Witness ==
    /\ innerRace = "timer"
    /\ TrainingPending
    /\ innerTimer.state = "fired"
    /\ epsState = "resolved"
    /\ epsValue = fastResult
    /\ now = innerTimer.deadline

\* C3: normalization, training and the inner timer start only with the fallback
\* result already held.
C3_FallbackFirst ==
    (\/ processedData # None
     \/ fallbackWhy # "none"
     \/ training # "none"
     \/ xsTensor # "none"
     \/ tfModel # "none"
     \/ innerTimer.state # "unarmed"
     \/ innerRace # "none"
     \/ epc \in {"normalize", "train", "await"})
        => fastResult # None /\ fastResult = fastPredictStock(stockData).value

C3_Witness ==
    /\ training = "phase1"
    /\ innerTimer.state = "armed"
    /\ epsState = "pending"
    /\ fastResult # None

C5_ReleasedOnReturn ==
    EpsSettled => xsTensor # "live" /\ ysTensor # "live" /\ tfModel # "live"

\* C6: for a series of fewer than 10 points, fastPredictStock throws and
\* enhancedPredictStock rejects with that error, without normalizing or training
\* and without a result.
C6_InsufficientDataRejects ==
    Len(stockData) < MinPoints /\ epc # "idle" =>
        /\ fastPredictStock(stockData).threw
        /\ epc \in {"fast", "done"}
        /\ fastResult = None
        /\ processedData = None
        /\ training = "none"
        /\ innerTimer.state = "unarmed"
        /\ epsValue = None
        /\ epc = "done" => epsState = "rejected"
                           /\ epsError = "Insufficient data for prediction"

C6_Witness ==
    /\ Len(stockData) = MinPoints - 1
    /\ epc = "done"
    /\ epsState = "rejected"
    /\ epsValue = None

\* C7: for a series of at least 10 points on which the normalizer throws (a NaN
\* price), enhancedPredictStock rejects.
C7_InvalidDataPropagates ==
    (/\ Len(stockData) >= MinPoints
     /\ HasNaN(Prices(stockData))
     /\ processStockData(TimeSeries(stockData)).threw
     /\ epc = "done")
        => epsState = "rejected"

InRange(x, lo, hi) == ~IsNaN(x) /\ lo <= x /\ x <= hi

\* C8: for a valid series the confidence of a fallback result is within [45, 90]
\* and that of an enhanced result within [40, 95] (confidence is in tenths).
C8_ConfidenceBounds ==
    ValidSeries(stockData) =>
        /\ fastResult # None => InRange(fastResult[1].confidence, 450, 900)
        /\ path = "fallback" => InRange(epsValue[1].confidence, 450, 900)
        /\ path = "enhanced" => InRange(epsValue[1].confidence, 400, 950)

C8_Witness ==
    /\ ValidSeries(stockData)
    /\ path = "enhanced"
    /\ epsValue[1].confidence = 400
    /\ fastResult[1].confidence > 450

\* C9: for a valid series every reported confidence, of either path, is within
\* [45, 90].
C9_ConfidenceAsDocumented ==
    ValidSeries(stockData) =>
        /\ fastResult # None => InRange(fastResult[1].confidence, 450, 900)
        /\ epsState = "resolved" => InRange(epsValue[1].confidence, 450, 900)

\* the trend rule applied to a change of changeNum / den
TrendRule(changeNum, den, currentPrice) ==
    IF Abs(changeNum) * 1000 < 5 * currentPrice * den THEN "stable"
    ELSE IF changeNum > 0 THEN "up" ELSE "down"

\* C10, on the fields of the result: for a valid series the trend of a result follows the trend rule
\* on the change and currentPrice fields of that result (both in hundredths).
C10_TrendOfResultFields ==
    ValidSeries(stockData) =>
        /\ fastResult # None =>
               fastResult[1].trend =
                   TrendRule(fastResult[1].change, 1, fastResult[1].currentPrice)
        /\ epsState = "resolved" =>
               epsValue[1].trend =
                   TrendRule(epsValue[1].change, 1, epsValue[1].currentPrice)

\* C10, on the unrounded quantities: for a valid series the trend of a result follows the trend rule on
\* the change and currentPrice the path computed, of which the result's change and
\* currentPrice fields are the roundings to two decimals.
C10_TrendOfUnroundedChange ==
    ValidSeries(stockData) =>
        /\ fastResult # None =>
               LET u == unrounded.fast[1]
               IN  /\ fastResult[1].trend = TrendRule(u.changeNum, u.den, u.currentPrice)
                   /\ fastResult[1].change = RoundDiv(u.changeNum * 100, u.den)
                   /\ fastResult[1].currentPrice = u.currentPrice * 100
        /\ path = "enhanced" =>
               LET u == unrounded.enhanced[1]
               IN  /\ epsValue[1].trend = TrendRule(u.changeNum, u.den, u.currentPrice)
                   /\ epsValue[1].change = RoundDiv(u.changeNum * 100, u.den)
                   /\ epsValue[1].currentPrice = u.currentPrice * 100

\* a result whose trend is stable although its rounded change is not below 0.5
\* percent of its currentPrice
C10_Witness ==
    /\ ValidSeries(stockData)
    /\ fastResult # None
    /\ fastResult[1].trend = "stable"
    /\ Abs(fastResult[1].change) * 1000 >= 5 * fastResult[1].currentPrice
    /\ path = "enhanced"

StrictlyIncreasing(prices) == \A i \in 1..(Len(prices) - 1) : prices[i] < prices[i + 1]

\* the last RegressionWindow prices differ by d from one to the next
IsProgression(prices, d) ==
    /\ Len(prices) >= RegressionWindow
    /\ \A i \in (Len(prices) - RegressionWindow + 1)..(Len(prices) - 1) :
           prices[i + 1] = prices[i] + d

\* C11, as the spec has it: for a series of at least 10 strictly increasing prices
\* the trend of the result of fastPredictStock is up.
C11_RisingIsUp ==
    (/\ fastResult # None
     /\ Len(stockData) >= MinPoints
     /\ StrictlyIncreasing(Prices(stockData)))
        => fastResult[1].trend = "up"

\* C11, by the change: for a series of at least 10 strictly increasing prices the
\* trend of the result of fastPredictStock is up exactly when the extrapolated
\* change is at least 0.5 percent of the current price, as it is when the last 10
\* prices rise by a constant step of at least that much.
C11_RisingIsUpByChange ==
    (/\ fastResult # None
     /\ Len(stockData) >= MinPoints
     /\ StrictlyIncreasing(Prices(stockData)))
        => LET u == unrounded.fast[1]
           IN  /\ fastResult[1].trend = "up"
                      <=> u.changeNum * 1000 >= 5 * u.currentPrice * u.den
               /\ fastResult[1].trend \in {"up", "stable", "down"}
               /\ \A d \in 1..MaxSlope :
                      IsProgression(Prices(stockData), d) /\ d * 1000 >= 5 * u.currentPrice
                          => fastResult[1].trend = "up"

C11_Witness ==
    /\ fastResult # None
    /\ StrictlyIncreasing(Prices(stockData))
    /\ ~IsProgression(Prices(stockData), 1)
    /\ Len(stockData) = MinPoints
    /\ fastResult[1].trend = "up"
    /\ unrounded.fast[1].changeNum * 1000 >= 5 * unrounded.fast[1].currentPrice * unrounded.fast[1].den

\* C12: for a series whose last 10 prices form an arithmetic progression with step
\* d, fastPredictStock predicts the last price plus d, with trend up when d is at
\* least 0.5 percent of the last price, and a second call on the same series
\* returns the same result.
C12_ProgressionExtrapolates ==
    fastResult # None =>
        \A d \in (0 - MaxSlope)..MaxSlope :
            IsProgression(Prices(stockData), d) =>
                LET u    == unrounded.fast[1]
                    last == stockData[Len(stockData)].price
                IN  /\ u.nextNum = (last + d) * u.den
                    /\ fastResult[1].predictedPrice = (last + d) * 100
                    /\ fastResult[1].change = d * 100
                    /\ d * 1000 >= 5 * last => fastResult[1].trend = "up"
                    /\ fastPredictStock(stockData) = Return(fastResult[1])

\* the series 100, 101, ..., 109 and its result
C12_Witness ==
    /\ stockData = Dated(Progression(HighStart \div 3, 1, RegressionWindow))
    /\ fastResult # None
    /\ fastResult[1].predictedPrice = (HighStart \div 3 + RegressionWindow) * 100
    /\ fastResult[1].trend = "up"

\* every numeric field of a PredictionResult is a number
DefinedFields(r) ==
    /\ ~IsNaN(r.currentPrice)
    /\ ~IsNaN(r.predictedPrice)
    /\ ~IsNaN(r.confidence)
    /\ ~IsNaN(r.change)
    /\ ~IsNaN(r.changePercent)

ConstantSeries(sd) == \A i \in 1..Len(sd) : sd[i].price = sd[1].price

\* C13: for a series of at least 10 positive prices, a constant one included, the
\* prediction call does not fail, and every numeric field of the fallback result
\* and of the result it returns, whichever path made it, is a number.
C13_NoNaNField ==
    ValidSeries(stockData) =>
        /\ epsState # "rejected"
        /\ epc = "done" => epsState = "resolved" /\ path \in {"fallback", "enhanced"}
        /\ fastResult # None => DefinedFields(fastResult[1])
        /\ epsState = "resolved" => DefinedFields(epsValue[1])

\* a constant series of MaxLen prices, answered by the enhanced path
C13_Witness ==
    /\ ValidSeries(stockData)
    /\ ConstantSeries(stockData)
    /\ Len(stockData) = MaxLen
    /\ epsState = "resolved"
    /\ path = "enhanced"
    /\ DefinedFields(epsValue[1])
    /\ epsValue[1].change = 0

\* the call of fn on its own has returned or thrown
Returned(fn) == lib.fn = fn /\ lib.out # None

\* no two elements differ
Constant(a) == \A i, j \in 1..Len(a) : a[i] = a[j]

\* C14: calculateR2Score(a, a) returns exactly 1 for every array a of numbers that
\* is not constant.
C14_R2OfItself ==
    (/\ Returned("calculateR2Score")
     /\ lib.args[1] = lib.args[2]
     /\ ~HasNaN(lib.args[1])
     /\ ~Constant(lib.args[1]))
        => lib.out[1] = Return(FracScale)

C14_Witness ==
    /\ Returned("calculateR2Score")
    /\ lib.args = << <<0, 1, 3>>, <<0, 1, 3>> >>
    /\ lib.out[1] = Return(FracScale)

\* C15: for arrays of equal length calculateR2Score returns exactly 0 when actual
\* is constant or either array holds a NaN, whatever predicted is, so that the R2
\* term of the enhanced confidence is 0.
C15_R2ZeroOnConstantOrNaN ==
    (/\ Returned("calculateR2Score")
     /\ Len(lib.args[1]) = Len(lib.args[2])
     /\ \/ HasNaN(lib.args[1])
        \/ HasNaN(lib.args[2])
        \/ Constant(lib.args[1]))
        => /\ lib.out[1] = Return(0)
           /\ MathMax(0, MathMin(100 * ConfScale, lib.out[1].value[1])) = 0

\* C16: calculateR2Score and calculateMSE throw, and return nothing, when actual
\* and predicted differ in length, also when one of them holds a NaN.
C16_LengthMismatchThrows ==
    (/\ Returned("calculateR2Score") \/ Returned("calculateMSE")
     /\ Len(lib.args[1]) # Len(lib.args[2]))
        => /\ lib.out[1].threw
           /\ lib.out[1].value = None
           /\ lib.out[1].message = "Actual and predicted arrays must have the same length"

C16_Witness ==
    /\ Returned("calculateMSE")
    /\ lib.args = << <<1, NaN>>, <<1>> >>
    /\ lib.out[1].threw

\* C17: for arrays of equal length, empty ones included, calculateMSE and
\* calculateR2Score return a number that is not NaN; calculateMSE returns 0 when
\* either array holds a NaN, and otherwise a value that is not negative.
C17_MetricsNeverNaN ==
    (/\ Returned("calculateR2Score") \/ Returned("calculateMSE")
     /\ Len(lib.args[1]) = Len(lib.args[2]))
        => /\ ~lib.out[1].threw
           /\ ~IsNaN(lib.out[1].value[1])
           /\ lib.fn = "calculateMSE" =>
                  /\ lib.out[1].value[1] >= 0
                  /\ HasNaN(lib.args[1]) \/ HasNaN(lib.args[2]) => lib.out[1].value[1] = 0

C17_Witness ==
    /\ Returned("calculateMSE")
    /\ lib.args = << << >>, << >> >>
    /\ lib.out[1] = Return(0)

\* C18: for a model trained on positive prices, what predictNextDay returns is
\* within 0.8 times the lowest and 1.2 times the highest of them, and is the lowest
\* when the network gives NaN.
C18_PredictionBounded ==
    Returned("predictNextDay") =>
        LET model == lib.args[1]
            value == lib.out[1].value[1]
        IN  /\ ~lib.out[1].threw
            /\ ~IsNaN(value)
            /\ 10 * value >= 8 * SeqMin(model.trainingPrices) * PriceScale
            /\ 10 * value <= 12 * SeqMax(model.trainingPrices) * PriceScale
            /\ IsNaN(lib.args[2]) => value = SeqMin(model.trainingPrices) * PriceScale

C18_Witness ==
    /\ Returned("predictNextDay")
    /\ IsNaN(lib.args[2])
    /\ ~Constant(lib.args[1].trainingPrices)
    /\ lib.args[3] = Len(lib.args[1].trainingPrices)
    /\ lib.out[1] = Return(SeqMin(lib.args[1].trainingPrices) * PriceScale)

\* C19: the long moving average of fastPredictStock is the mean of the last
\* min(20, n) prices: for a series of n prices, 10 <= n < 20, it is their sum
\* divided by n.
C19_LongMAOverWhatThereIs ==
    (/\ fastResult # None
     /\ ~HasNaN(Prices(stockData))
     /\ Len(stockData) < LongWindow)
        => LET longMA == unrounded.fast[1].longMA
           IN  longMA.num * Len(stockData) = SumSeq(Prices(stockData)) * longMA.den

\* C20: every vector createAdvancedFeatures builds, for a constant series
\* (yMax = yMin) and for a single index (xMax = xMin) too, has 9 components that
\* are numbers, those normalized by a range being 0 when the range is 0.
C20_FeaturesDefined ==
    Returned("createAdvancedFeatures") =>
        LET features == lib.out[1].value[1]
            model    == lib.args[4]
        IN  /\ Len(features) = 9
            /\ ~HasNaN(features)
            /\ model.xMax = model.xMin => features[1] = 0
            /\ model.yMax = model.yMin => \A i \in 6..9 : features[i] = 0

\* the mean of the count prices that end at index is num / den
MeanOfLast(prices, index, count, ma) ==
    ma.num * count = SumSeq(SubSeq(prices, index + 2 - count, index + 1)) * ma.den

\* C21: in the features of index i the 5-day average is the mean of the
\* min(5, i + 1) prices that end at i, and the 3-day average is the mean of the
\* last 3 prices where i >= 2 and takes no price after i where i < 2.
C21_WarmUpAverages ==
    Returned("createAdvancedFeatures") =>
        LET prices   == lib.args[2]
            index    == lib.args[3]
            model    == lib.args[4]
            features == lib.out[1].value[1]
            yRange   == model.yMax - model.yMin
            few      == IF index + 1 < 5 THEN index + 1 ELSE 5
            prefix   == SumSeq(SubSeq(prices, index + 2 - few, index + 1))
        IN  /\ MeanOfLast(prices, index, few, MA5(prices, index))
            /\ features[7] = Divide(prefix - model.yMin * few, yRange * few)
            /\ index >= 2 => MeanOfLast(prices, index, 3, MA3(prices, index))
            /\ index < 2 => MA3(prices, index) = [num |-> prices[index + 1], den |-> 1]

\* C22: getPredictionsForData returns one value for each index: the denormalized
\* output of the network kept within 0.8 times yMin and 1.2 times yMax where it
\* is a number, and where it is NaN the training price of the index, or half of
\* yMin + yMax where the index has no training price; for positive prices none
\* of the values is NaN.
C22_PredictionsCleaned ==
    Returned("getPredictionsForData") =>
        LET model   == lib.args[1]
            xs      == lib.args[2]
            netOuts == lib.args[3]
            out     == lib.out[1].value[1]
            low     == 8 * model.yMin * PriceScale
            high    == 12 * model.yMax * PriceScale
        IN  /\ Len(out) = Len(xs)
            /\ \A i \in 1..Len(xs) :
                   /\ ~IsNaN(out[i])
                   /\ IsNaN(netOuts[i]) =>
                          out[i] = IF i <= Len(model.trainingPrices)
                                   THEN model.trainingPrices[i] * PriceScale
                                   ELSE ((model.yMin + model.yMax) * PriceScale) \div 2
                   /\ ~IsNaN(netOuts[i]) =>
                          LET val == (netOuts[i] * (model.yMax - model.yMin) * PriceScale)
                                         \div NetGrid + model.yMin * PriceScale
                          IN  /\ low <= 10 * out[i] /\ 10 * out[i] <= high
                              /\ (low <= 10 * val /\ 10 * val <= high) => out[i] = val

\* a call on one index more than the training prices, the network giving NaN on
\* the last training index too
C22_Witness ==
    /\ Returned("getPredictionsForData")
    /\ LET model   == lib.args[1]
           trained == Len(model.trainingPrices)
           out     == lib.out[1].value[1]
       IN  /\ Len(lib.args[2]) = trained + 1
           /\ model.yMin < model.yMax
           /\ model.trainingPrices[trained] = model.yMax
           /\ IsNaN(lib.args[3][trained])
           /\ ~IsNaN(lib.args[3][1])
           /\ out[trained] = model.yMax * PriceScale
           /\ out[trained + 1] = ((model.yMin + model.yMax) * PriceScale) \div 2

\* C23: for a mapping of at least one date, every price a number,
\* processStockData returns the dates in ascending order, each price that of its
\* date, xs[i] = i counted from 0, and as many of each as there are dates.
C23_SortedAndIndexed ==
    (/\ Returned("processStockData")
     /\ DOMAIN lib.args[1] # {}
     /\ \A d \in DOMAIN lib.args[1] : lib.args[1][d].text = "digits")
        => /\ ~lib.out[1].threw
           /\ LET timeSeries == lib.args[1]
                  r == lib.out[1].value[1]
                  n == Cardinality(DOMAIN timeSeries)
              IN  /\ Len(r.dates) = n /\ Len(r.prices) = n /\ Len(r.xs) = n
                  /\ \A i, j \in 1..n : i < j => r.dates[i] < r.dates[j]
                  /\ \A i \in 1..n :
                         /\ r.dates[i] \in DOMAIN timeSeries
                         /\ r.prices[i] = timeSeries[r.dates[i]].digits
                         /\ r.xs[i] = i - 1

\* three dates with a gap, their prices falling
C23_Witness ==
    /\ Returned("processStockData")
    /\ DOMAIN lib.args[1] = {1, 3, 4}
    /\ ~lib.out[1].threw
    /\ lib.out[1].value[1].dates = <<1, 3, 4>>
    /\ lib.out[1].value[1].prices = <<BasePrice + 1, BasePrice, BasePrice - 1>>
    /\ lib.out[1].value[1].xs = <<0, 1, 2>>

\* C24: in one call of enhancedPredictStock the training is started at most
\* once, from line 81 and never again after it timed out, failed or finished,
\* and its second fit starts only when the first has completed.
C24_TrainsOnce ==
    [][/\ (training' = "phase1" /\ training # "phase1") =>
              (training = "none" /\ epc = "train")
       /\ (training' = "phase2" /\ training # "phase2") => training = "phase1"
       /\ training \in {"resolved", "rejected"} => training' = training]_vars

\* the training has finished after the timeout took the race
C24_Witness ==
    /\ innerRace = "timer"
    /\ training = "resolved"
    /\ epsState = "resolved"
    /\ path = "fallback"

\* C25: the outer timeout is never the outcome of the race of handlePredict: the
\* inner timer is armed before the outer one with the shorter delay, and the
\* promise of enhancedPredictStock is settled by the time the outer timer's
\* callback has run.
C25_OuterNeverWins ==
    /\ outerRace # "timer"
    /\ error # MsgOuterTimeout
    /\ outerTimer.state = "fired" => epsState \in {"resolved", "rejected"}
    /\ (outerTimer.state = "armed" /\ epsState = "pending") =>
           /\ innerTimer.state # "unarmed"
           /\ innerTimer.deadline < outerTimer.deadline

\* the inner timeout gave the fallback, and the outer timer fired later
C25_Witness ==
    /\ outerTimer.state = "fired"
    /\ innerRace = "timer"
    /\ outerRace = "prediction"
    /\ prediction = fastResult
    /\ prediction # None
    /\ ~loading

\* C26: what the losing side of a race does later has no effect: once the inner
\* race is decided, the end of the training and the inner timer change nothing of
\* what enhancedPredictStock returned, and once the outer race is decided, no
\* timer, training or settlement changes the prediction, the error or loading.
C26_LosersIgnored ==
    [][/\ (/\ innerRace \in {"model", "timer"}
           /\ training' # training \/ innerTimer' # innerTimer)
              => UNCHANGED <<epsState, epsValue, epsError, path>>
       /\ (/\ outerRace \in {"prediction", "timer"}
           /\ \/ training' # training
              \/ innerTimer' # innerTimer
              \/ outerTimer' # outerTimer
              \/ epsState' # epsState)
              => UNCHANGED <<prediction, error, loading>>]_vars

\* the model won the inner race, and both timers have fired since
C26_Witness ==
    /\ innerRace = "model"
    /\ path = "enhanced"
    /\ innerTimer.state = "fired"
    /\ outerTimer.state = "fired"
    /\ outerRace = "prediction"
    /\ prediction = epsValue
    /\ error = ""

\* C27: while a handlePredict call with a symbol is in progress loading is true;
\* when it has finished loading is false and either there is a prediction and
\* no error, or an error and no prediction, whatever the outcome.
C27_LoadingAndOutcome ==
    /\ hpc \in {"fetch", "call", "race"} => loading
    /\ hpc = "done" =>
           /\ ~loading
           /\ \/ prediction # None /\ error = ""
              \/ prediction = None /\ error # ""

\* the request has ended by the outer timeout
C27_Witness ==
    /\ hpc = "done"
    /\ outerRace = "timer"
    /\ ~loading
    /\ prediction = None
    /\ error = MsgOuterTimeout

\* a handlePredict call is between its start and its finally
InFlight == hpc \in {"fetch", "call", "race"}

\* a step that starts a request, or changes the symbol, is taken while no
\* request is in flight and loading is false
StartsAndEditsOnlyWhenIdle ==
    /\ (hpc' = "fetch" /\ (hpc # "fetch" \/ repeats' # repeats)) =>
           (~InFlight /\ ~loading)
    /\ stockSymbolBlank' # stockSymbolBlank => (~InFlight /\ ~loading)

\* C28: no handlePredict starts while one is in flight, and no control changes
\* the symbol meanwhile, the controls being disabled while loading; so the
\* prediction shown is that of the request started last, made from its data.
C28_OneRequestAtATime ==
    /\ [](/\ InFlight => loading
          /\ prediction # None =>
                 /\ ~InFlight
                 /\ stockData # << >>
                 /\ epsState = "resolved"
                 /\ prediction = epsValue
                 /\ fastResult = fastPredictStock(stockData).value
                 /\ path = "fallback" => prediction = fastResult)
    /\ [][StartsAndEditsOnlyWhenIdle]_vars

\* a later request has ended with the prediction of the enhanced path
C28_Witness ==
    /\ repeats >= 1
    /\ hpc = "done"
    /\ ~loading
    /\ prediction # None
    /\ path = "enhanced"
    /\ prediction = epsValue

\* C29: the currentPrice of an enhanced result is the currentPrice of the fast
\* result for the same input, the price of the last element of the input as
\* given, whatever the order of its dates.
C29_SameCurrentPrice ==
    (epsState = "resolved" /\ path = "enhanced") =>
        /\ fastResult # None
        /\ epsValue[1].currentPrice = fastResult[1].currentPrice
        /\ epsValue[1].currentPrice =
               ToFixed(stockData[Len(stockData)].price, 1, 10 * 10)

\* an enhanced result for an input whose date-sorted series ends with another
\* price than the input does
C29_Witness ==
    /\ epsState = "resolved"
    /\ path = "enhanced"
    /\ processedData # None
    /\ ~IsNaN(stockData[Len(stockData)].price)
    /\ LET prices == processedData[1].prices
       IN  /\ ~IsNaN(prices[Len(prices)])
           /\ prices[Len(prices)] # stockData[Len(stockData)].price

====
